---- MODULE Spec2Model ----
(***************************************************************************)
(* A model of the publicodes compilation pipeline (parsePublicodes):       *)
(* transpileRef, the per-rule parsing loop, disambiguateReference,         *)
(* topologicalSort, inferRulesUnit, and of the `composantes` expander      *)
(* decompose.  Every component has its own specification over the shared   *)
(* variables; the variables a specification does not use stay at Idle.     *)
(***************************************************************************)
EXTENDS Naturals, Sequences, FiniteSets, TLC

VARIABLES
    pc,               \* position of the running procedure
    rulesNames,       \* topologicalSort: the list of rule names
    dependencyGraph,  \* rule name -> list of the names it depends on
    result,           \* topologicalSort: the order built so far
    temp,             \* topologicalSort: the "in progress" marks
    stack,            \* call stack of topologicalSortHelper
    loopIdx,          \* position of the for-of loop over rulesNames
    parsedRules,      \* rule name -> RuleNode
    res,              \* inferRulesUnit: the fact table
    inferIdx,         \* position of inferRulesUnit's forEach
    lookups,          \* history: the reads of the fact table by reference nodes
    rawRules,         \* parsePublicodes step 3: the entries of the raw rule map
    ruleIdx,          \* position of the forEach over the raw entries
    parseCalls,       \* the arguments handed to the collaborator `parse`
    thrown,           \* the error raised, or NoError
    object,           \* transpileRef: the raw input
    transpiled,       \* transpileRef(object)
    retranspiled,     \* transpileRef(transpileRef(object))
    k,                \* decompose: the mechanism key
    v,                \* decompose: the mechanism value
    node              \* decompose: the node returned

vars == <<pc, rulesNames, dependencyGraph, result, temp, stack, loopIdx,
          parsedRules, res, inferIdx, lookups, rawRules, ruleIdx, parseCalls, thrown,
          object, transpiled, retranspiled, k, v, node>>

sortVars == <<rulesNames, dependencyGraph, result, temp, stack, loopIdx>>
compileVars == <<parsedRules, res, inferIdx, lookups>>
parseVars == <<rawRules, ruleIdx, parseCalls>>
transpileVars == <<object, transpiled, retranspiled>>
decomposeVars == <<k, v, node>>

Idle == "idle"
NoError == [error |-> "none"]
\* JavaScript's undefined: an absent property, a function that returns nothing
Undefined == [undefined |-> TRUE]

(***************************************************************************)
(* Helpers on sequences and finite maps                                    *)
(***************************************************************************)
Range(s) == {s[i] : i \in DOMAIN s}

\* Array.prototype.includes
Includes(s, x) == \E i \in DOMAIN s : s[i] = x

SeqsUpTo(S, n) == UNION {[1..m -> S] : m \in 0..n}

Permutations_(S) == {s \in [1..Cardinality(S) -> S] : Range(s) = S}

RECURSIVE SumLen(_, _)
SumLen(f, D) ==
    IF D = {} THEN 0
    ELSE LET d == CHOOSE d \in D : TRUE IN Len(f[d]) + SumLen(f, D \ {d})

(***************************************************************************)
(* Dotted names: hierarchical identifiers, one tuple of segments each      *)
(***************************************************************************)
DottedNames == {<<"a">>, <<"b">>, <<"a", "b">>}

(***************************************************************************)
(* topologicalSort                                                         *)
(***************************************************************************)
\* the most edges a generated dependency graph holds
MaxEdges == 3

\* dependencyGraph[ruleName] ?? []: the graph is kept as a total map in which
\* a rule without a key holds the empty list, the value `?? []` reads for it
NodeDependencies(graph, ruleName) == graph[ruleName]

\* a variant in which every name is seen in progress
InProgressAlways(marks, name) == TRUE

\* a variant in which no name is ever seen in progress
InProgressNever(marks, name) == FALSE

\* temp[dependency], read as a condition: a name never marked is falsy and
\* is kept as FALSE
InProgress(marks, name) == marks[name]

\* a variant in which every name is taken as not yet emitted
NotInResultAlways(order, name) == TRUE

\* !result.includes(ruleName), the guard of both calls of the helper
NotInResult(order, name) == ~Includes(order, name)

\* a variant that emits at the front of the order
PushFront(order, ruleName) == <<ruleName>> \o order

\* result.push(ruleName)
Push(order, ruleName) == Append(order, ruleName)

\* the helper's entry: temp[ruleName] = true, then nodeDependencies is read
\* and the for-of loop over it starts
EnterHelper(callers, ruleName) ==
    /\ temp' = [temp EXCEPT ![ruleName] = TRUE]
    /\ stack' = Append(callers,
                       [ruleName |-> ruleName,
                        nodeDependencies |->
                            NodeDependencies(dependencyGraph, ruleName),
                        i |-> 1])

Top == stack[Len(stack)]

AdvanceTop == [stack EXCEPT ![Len(stack)].i = @ + 1]

\* for (const ruleName of rulesNames): the name is not in the result yet
SortLoopCall ==
    /\ pc = "sort" /\ stack = <<>>
    /\ loopIdx <= Len(rulesNames)
    /\ NotInResult(result, rulesNames[loopIdx])
    /\ EnterHelper(stack, rulesNames[loopIdx])
    /\ loopIdx' = loopIdx + 1
    /\ UNCHANGED <<pc, thrown, rulesNames, dependencyGraph, result>>
    /\ UNCHANGED <<compileVars, parseVars, transpileVars, decomposeVars>>

\* for (const ruleName of rulesNames): the name is in the result already
SortLoopSkip ==
    /\ pc = "sort" /\ stack = <<>>
    /\ loopIdx <= Len(rulesNames)
    /\ ~NotInResult(result, rulesNames[loopIdx])
    /\ loopIdx' = loopIdx + 1
    /\ UNCHANGED <<pc, thrown, rulesNames, dependencyGraph, result, temp, stack>>
    /\ UNCHANGED <<compileVars, parseVars, transpileVars, decomposeVars>>

\* if (temp[dependency]) continue
HelperSkipInProgress ==
    /\ pc = "sort" /\ stack # <<>>
    /\ Top.i <= Len(Top.nodeDependencies)
    /\ InProgress(temp, Top.nodeDependencies[Top.i])
    /\ stack' = AdvanceTop
    /\ UNCHANGED <<pc, thrown, rulesNames, dependencyGraph, result, temp, loopIdx>>
    /\ UNCHANGED <<compileVars, parseVars, transpileVars, decomposeVars>>

\* if (!result.includes(dependency)) topologicalSortHelper(dependency)
HelperCall ==
    /\ pc = "sort" /\ stack # <<>>
    /\ Top.i <= Len(Top.nodeDependencies)
    /\ ~InProgress(temp, Top.nodeDependencies[Top.i])
    /\ NotInResult(result, Top.nodeDependencies[Top.i])
    /\ EnterHelper(AdvanceTop, Top.nodeDependencies[Top.i])
    /\ UNCHANGED <<pc, thrown, rulesNames, dependencyGraph, result, loopIdx>>
    /\ UNCHANGED <<compileVars, parseVars, transpileVars, decomposeVars>>

\* the dependency is in the result already: the loop moves on
HelperSkipDone ==
    /\ pc = "sort" /\ stack # <<>>
    /\ Top.i <= Len(Top.nodeDependencies)
    /\ ~InProgress(temp, Top.nodeDependencies[Top.i])
    /\ ~NotInResult(result, Top.nodeDependencies[Top.i])
    /\ stack' = AdvanceTop
    /\ UNCHANGED <<pc, thrown, rulesNames, dependencyGraph, result, temp, loopIdx>>
    /\ UNCHANGED <<compileVars, parseVars, transpileVars, decomposeVars>>

\* temp[ruleName] = false; result.push(ruleName)
HelperReturn ==
    /\ pc = "sort" /\ stack # <<>>
    /\ Top.i > Len(Top.nodeDependencies)
    /\ temp' = [temp EXCEPT ![Top.ruleName] = FALSE]
    /\ result' = Push(result, Top.ruleName)
    /\ stack' = SubSeq(stack, 1, Len(stack) - 1)
    /\ UNCHANGED <<pc, thrown, rulesNames, dependencyGraph, loopIdx>>
    /\ UNCHANGED <<compileVars, parseVars, transpileVars, decomposeVars>>

\* return result
SortReturn ==
    /\ pc = "sort" /\ stack = <<>>
    /\ loopIdx > Len(rulesNames)
    /\ pc' = "sorted"
    /\ UNCHANGED <<thrown, sortVars>>
    /\ UNCHANGED <<compileVars, parseVars, transpileVars, decomposeVars>>

\* the dependency graphs over `names`: every edge target a rule name,
\* duplicate edges and self-loops included
Graphs(names) ==
    {g \in [names -> SeqsUpTo(names, MaxEdges)] : SumLen(g, names) <= MaxEdges}

InitSort ==
    /\ pc = "sort"
    /\ thrown = NoError
    /\ \E names \in SUBSET DottedNames :
          /\ names # {}
          /\ rulesNames \in Permutations_(names)
          /\ dependencyGraph \in Graphs(names)
    /\ result = <<>>
    /\ temp = [n \in Range(rulesNames) |-> FALSE]
    /\ stack = <<>>
    /\ loopIdx = 1
    /\ parsedRules = Idle /\ res = Idle /\ inferIdx = 0 /\ lookups = <<>>
    /\ rawRules = Idle /\ ruleIdx = 0 /\ parseCalls = <<>>
    /\ object = Idle /\ transpiled = Idle /\ retranspiled = Idle
    /\ k = Idle /\ v = Idle /\ node = Idle

NextSort ==
    \/ SortLoopCall
    \/ SortLoopSkip
    \/ HelperSkipInProgress
    \/ HelperCall
    \/ HelperSkipDone
    \/ HelperReturn
    \/ SortReturn

SpecSort == InitSort /\ [][NextSort]_vars /\ WF_vars(NextSort)

(***************************************************************************)
(* Raw values: the untyped nested structures of the rule source.  A string *)
(* is a sequence of tokens, each token a piece of text: "a[ref]" is        *)
(* <<"a", "[ref]">>.  An object keeps its entries in insertion order.      *)
(***************************************************************************)
Str(tokens) == [string |-> tokens]
Num(n) == [number |-> n]
Bool(b) == [boolean |-> b]
Null == [null |-> TRUE]
List(items) == [array |-> items]
Obj(entries) == [entries |-> entries]
Entry(key, value) == [key |-> key, value |-> value]

\* typeof x
TypeofStrict(x) ==
    IF "string" \in DOMAIN x THEN "string"
    ELSE IF "number" \in DOMAIN x THEN "number"
    ELSE IF "boolean" \in DOMAIN x THEN "boolean"
    ELSE IF "undefined" \in DOMAIN x THEN "undefined"
    ELSE IF "null" \in DOMAIN x THEN "null"
    ELSE IF "array" \in DOMAIN x THEN "array"
    ELSE "object"

Typeof(x) ==
    IF "string" \in DOMAIN x THEN "string"
    ELSE IF "number" \in DOMAIN x THEN "number"
    ELSE IF "boolean" \in DOMAIN x THEN "boolean"
    ELSE IF "undefined" \in DOMAIN x THEN "undefined"
    ELSE "object"

\* Array.isArray(x)
IsArray(x) == "array" \in DOMAIN x

\* !x
Falsy(x) ==
    \/ "null" \in DOMAIN x
    \/ "undefined" \in DOMAIN x
    \/ ("boolean" \in DOMAIN x /\ ~x.boolean)
    \/ ("number" \in DOMAIN x /\ x.number = 0)
    \/ ("string" \in DOMAIN x /\ x.string = <<>>)

\* `${x}` of a string or a number
Digits == [n \in 0..9 |-> <<"0", "1", "2", "3", "4", "5", "6", "7", "8", "9">>[n + 1]]

TemplateString(x) == IF "number" \in DOMAIN x THEN <<Digits[x.number]>> ELSE x.string

\* { ...obj, [key]: value }: an existing key keeps its place and takes the
\* new value, a new key is appended
SetKey(entries, key, value) ==
    IF \E i \in DOMAIN entries : entries[i].key = key
    THEN [i \in DOMAIN entries |->
             IF entries[i].key = key THEN Entry(key, value) ELSE entries[i]]
    ELSE Append(entries, Entry(key, value))

\* Object.entries(x) of what a spread copies: the entries of an object, the
\* indexed items of an array, nothing for null
OwnEntries(x) ==
    IF IsArray(x)
    THEN [i \in DOMAIN x.array |-> Entry(<<Digits[i - 1]>>, x.array[i])]
    ELSE IF "entries" \in DOMAIN x THEN x.entries
    ELSE <<>>

RECURSIVE SpreadInto(_, _)
SpreadInto(entries, more) ==
    IF more = <<>> THEN entries
    ELSE SpreadInto(SetKey(entries, more[1].key, more[1].value), Tail(more))

(***************************************************************************)
(* transpileRef                                                            *)
(***************************************************************************)
RefToken == "[ref]"
RefNameToken == "[ref n]"

\* the start of the leftmost match of /\[ref( (.+))?\]$/ in `key`, 0 when
\* there is none.  Only the two suffix tokens hold brackets.  A "[ref n]"
\* token opens a match whenever the key ends with "]": (.+) takes all the text
\* up to the last bracket.  A "[ref]" token matches only as the last token.
MatchStart(key) ==
    LET n == Len(key)
        starts == {i \in 1..n : \/ key[i] = RefNameToken
                                \/ (key[i] = RefToken /\ i = n)}
    IN  IF n = 0 \/ key[n] \notin {RefToken, RefNameToken} \/ starts = {}
        THEN 0
        ELSE CHOOSE i \in starts : \A j \in starts : i <= j

\* match[2]: the text between "[ref " and the closing bracket of the match
\* m; <<>> stands for the group that did not take part
Group2(m) ==
    IF m[1] = RefToken THEN <<>>
    ELSE IF Len(m) = 1 THEN <<"n">>
    ELSE <<"n]">> \o SubSeq(m, 2, Len(m) - 1)
         \o <<IF m[Len(m)] = RefToken THEN "[ref" ELSE "[ref n">>

\* String.prototype.trim
RECURSIVE TrimStart(_)
TrimStart(t) == IF t # <<>> /\ t[1] = " " THEN TrimStart(Tail(t)) ELSE t

RECURSIVE TrimEnd(_)
TrimEnd(t) ==
    IF t # <<>> /\ t[Len(t)] = " "
    THEN TrimEnd(SubSeq(t, 1, Len(t) - 1)) ELSE t

Trim(t) == TrimEnd(TrimStart(t))

\* key.replace(match[0], ''): the first occurrence of m in key is removed
RemoveFirst(key, m) ==
    LET at == {j \in 1..(Len(key) - Len(m) + 1) :
                   SubSeq(key, j, j + Len(m) - 1) = m}
        j == CHOOSE j \in at : \A j2 \in at : j <= j2
    IN  SubSeq(key, 1, j - 1) \o SubSeq(key, j + Len(m), Len(key))

\* const argumentType = key.replace(match[0], '').trim()
ArgumentType(key) ==
    Trim(RemoveFirst(key, SubSeq(key, MatchStart(key), Len(key))))

\* const argumentName = match[2]?.trim() || argumentType
ArgumentName(key) ==
    LET g == Trim(Group2(SubSeq(key, MatchStart(key), Len(key))))
    IN  IF g = <<>> THEN ArgumentType(key) ELSE g

RECURSIVE transpileRef(_)
RECURSIVE TranspileEntries(_, _)

\* Object.entries(object).reduce(..., {})
TranspileEntries(obj, entries) ==
    IF entries = <<>> THEN obj
    ELSE LET key == entries[1].key
             value == entries[1].value
         IN  IF MatchStart(key) = 0
             THEN TranspileEntries(
                      SetKey(obj, key, transpileRef(value)), Tail(entries))
             ELSE TranspileEntries(
                      SetKey(obj, ArgumentType(key),
                             Obj(<<Entry(<<"nom">>, Str(ArgumentName(key))),
                                   Entry(<<"valeur">>, transpileRef(value))>>)),
                      Tail(entries))

transpileRef(x) ==
    IF IsArray(x)
    THEN List([i \in DOMAIN x.array |-> transpileRef(x.array[i])])
    ELSE IF Falsy(x) \/ Typeof(x) # "object" THEN x
    ELSE Obj(TranspileEntries(<<>>, x.entries))

\* the most entries a generated object holds
MaxEntries == 2

\* the keys: an argument type, then at most two shorthand suffixes
ArgumentTypes == {<<>>, <<"a">>, <<"a", " ">>}
Suffixes == {<<>>} \cup {<<s>> : s \in {RefToken, RefNameToken}}
            \cup {<<s, t>> : s, t \in {RefToken, RefNameToken}}
Keys == {a \o s : a \in ArgumentTypes, s \in Suffixes} \ {<<>>}

Scalars == {Num(5), Str(<<"5">>), Null}

\* the values below the top level: scalars, a list, one-entry objects
InnerValues ==
    Scalars \cup {List(<<Num(5)>>)}
    \cup {Obj(<<Entry(key, Num(5))>>) : key \in {<<"a">>, <<"a", RefToken>>}}

Objects(keys, values) ==
    {Obj(e) : e \in {f \in SeqsUpTo([key : keys, value : values], MaxEntries) :
                        \A i, j \in DOMAIN f : i # j => f[i].key # f[j].key}}

RawInputs ==
    Scalars \cup {List(<<x>>) : x \in InnerValues} \cup Objects(Keys, InnerValues)

Transpile ==
    /\ pc = "transpile"
    /\ transpiled' = transpileRef(object)
    /\ pc' = "transpile again"
    /\ UNCHANGED <<thrown, object, retranspiled>>
    /\ UNCHANGED <<sortVars, compileVars, parseVars, decomposeVars>>

TranspileAgain ==
    /\ pc = "transpile again"
    /\ retranspiled' = transpileRef(transpiled)
    /\ pc' = "transpiled twice"
    /\ UNCHANGED <<thrown, object, transpiled>>
    /\ UNCHANGED <<sortVars, compileVars, parseVars, decomposeVars>>

InitTranspile ==
    /\ pc = "transpile"
    /\ thrown = NoError
    /\ object \in RawInputs
    /\ transpiled = Null /\ retranspiled = Null
    /\ rulesNames = <<>> /\ dependencyGraph = <<>> /\ result = <<>>
    /\ temp = <<>> /\ stack = <<>> /\ loopIdx = 0
    /\ parsedRules = Idle /\ res = Idle /\ inferIdx = 0 /\ lookups = <<>>
    /\ rawRules = <<>> /\ ruleIdx = 0 /\ parseCalls = <<>>
    /\ k = Idle /\ v = Idle /\ node = Idle

NextTranspile == Transpile \/ TranspileAgain

SpecTranspile == InitTranspile /\ [][NextTranspile]_vars

(***************************************************************************)
(* parsePublicodes, steps 2 and 3: the raw rules are transpiled, then each *)
(* entry is normalised and handed to the collaborator `parse`              *)
(***************************************************************************)
RuleKeys == {<<"a">>, <<"b">>, <<"c">>}

RawBodies ==
    {Str(<<"5">>), Num(5), Obj(<<Entry(<<"formule">>, Str(<<"5">>))>>),
     List(<<Num(5)>>), Bool(TRUE), Null}

\* new SyntaxError(`Rule ${dottedName} is incorrectly written. ...`)
SyntaxError(dottedName) ==
    [error |-> "SyntaxError",
     message |-> <<"Rule ">> \o dottedName
                 \o <<" is incorrectly written. Please give it a proper value.">>]

\* if (typeof rule === 'string' || typeof rule === 'number')
\*     rule = { formule: `${rule}` }
Normalise(rule) ==
    IF Typeof(rule) = "string" \/ Typeof(rule) = "number"
    THEN Obj(<<Entry(<<"formule">>, Str(TemplateString(rule)))>>)
    ELSE rule

\* rules = transpileRef(rules)
TranspileRules ==
    /\ pc = "transpile rules"
    /\ rawRules' = transpileRef(object).entries
    /\ ruleIdx' = 1
    /\ pc' = "parse"
    /\ UNCHANGED <<thrown, parseCalls>>
    /\ UNCHANGED <<sortVars, compileVars, transpileVars, decomposeVars>>

\* one turn of Object.entries(rules).forEach: the body is normalised; a body
\* whose typeof is not 'object' throws, any other goes to parse as
\* { nom: dottedName, ...rule }
ParseRule ==
    /\ pc = "parse"
    /\ ruleIdx <= Len(rawRules)
    /\ LET dottedName == rawRules[ruleIdx].key
           rule == Normalise(rawRules[ruleIdx].value)
       IN  IF Typeof(rule) # "object"
           THEN /\ thrown' = SyntaxError(dottedName)
                /\ pc' = "error"
                /\ UNCHANGED <<ruleIdx, parseCalls>>
           ELSE /\ parseCalls' =
                      Append(parseCalls,
                             Obj(SpreadInto(<<Entry(<<"nom">>, Str(dottedName))>>,
                                            OwnEntries(rule))))
                /\ ruleIdx' = ruleIdx + 1
                /\ UNCHANGED <<pc, thrown>>
    /\ UNCHANGED rawRules
    /\ UNCHANGED <<sortVars, compileVars, transpileVars, decomposeVars>>

\* let parsedRules = context.parsedRules
ParseDone ==
    /\ pc = "parse"
    /\ ruleIdx > Len(rawRules)
    /\ pc' = "parsed"
    /\ UNCHANGED <<thrown, parseVars>>
    /\ UNCHANGED <<sortVars, compileVars, transpileVars, decomposeVars>>

InitParse ==
    /\ pc = "transpile rules"
    /\ thrown = NoError
    /\ object \in Objects(RuleKeys, RawBodies)
    /\ transpiled = Null /\ retranspiled = Null
    /\ rulesNames = <<>> /\ dependencyGraph = <<>> /\ result = <<>>
    /\ temp = <<>> /\ stack = <<>> /\ loopIdx = 0
    /\ parsedRules = Idle /\ res = Idle /\ inferIdx = 0 /\ lookups = <<>>
    /\ rawRules = <<>> /\ ruleIdx = 0 /\ parseCalls = <<>>
    /\ k = Idle /\ v = Idle /\ node = Idle

NextParse == TranspileRules \/ ParseRule \/ ParseDone

SpecParse == InitParse /\ [][NextParse]_vars

(***************************************************************************)
(* decompose: the `composantes` expander                                   *)
(***************************************************************************)
\* the most components a generated `composantes` list holds
MaxComponents == 2

\* obj[key]
Get(obj, key) ==
    IF \E i \in DOMAIN obj.entries : obj.entries[i].key = key
    THEN obj.entries[CHOOSE i \in DOMAIN obj.entries : obj.entries[i].key = key].value
    ELSE Undefined

HasKey(obj, key) == \E i \in DOMAIN obj.entries : obj.entries[i].key = key

KeysOf(obj) == {obj.entries[i].key : i \in DOMAIN obj.entries}

\* const { [key]: _, ...rest } = obj
RECURSIVE Rest(_, _)
Rest(entries, key) ==
    IF entries = <<>> THEN <<>>
    ELSE IF entries[1].key = key THEN Rest(Tail(entries), key)
    ELSE <<entries[1]>> \o Rest(Tail(entries), key)

\* a variant in which the factored keys win over the component's
MergeFactoredWins(factoredKeys, otherKeys) == SpreadInto(otherKeys, factoredKeys)

\* { ...factoredKeys, ...otherKeys }
Merge(factoredKeys, otherKeys) == SpreadInto(factoredKeys, otherKeys)

\* the summand built for one component:
\* { ...attributs, valeur: { [k]: { ...factoredKeys, ...otherKeys } } }
Summand(key, factoredKeys, composante) ==
    Obj(SetKey(OwnEntries(Get(composante, <<"attributs">>)),
               <<"valeur">>,
               Obj(<<Entry(key,
                           Obj(Merge(factoredKeys,
                                     Rest(composante.entries, <<"attributs">>))))>>)))

\* the object decompose hands to parse
SommeOf(key, value) ==
    LET composantes == Get(value, <<"composantes">>).array
        factoredKeys == Rest(value.entries, <<"composantes">>)
    IN  Obj(<<Entry(<<"somme">>,
                    List([i \in DOMAIN composantes |->
                             Summand(key, factoredKeys, composantes[i])]))>>)

\* the collaborator parse: the node built from a raw mechanism value
ParseNode(raw) == [nodeKind |-> "somme", rawNode |-> raw]

\* decompose(k, v, context)
Decompose ==
    /\ pc = "decompose"
    /\ parseCalls' = Append(parseCalls, SommeOf(k, v))
    /\ node' = [nodeKind |-> ParseNode(SommeOf(k, v)).nodeKind,
                rawNode |-> ParseNode(SommeOf(k, v)).rawNode,
                sourcemapInfo |-> [mecanismName |-> "composantes"]]
    /\ pc' = "decomposed"
    /\ UNCHANGED <<thrown, k, v, rawRules, ruleIdx>>
    /\ UNCHANGED <<sortVars, compileVars, transpileVars>>

MechanismKeys == {<<"barème">>, <<"produit">>}

\* the keys shared by all components, and a component's own keys
EntryLists(value) ==
    {<<>>, <<Entry(<<"taux">>, value)>>, <<Entry(<<"plafond">>, value)>>,
     <<Entry(<<"taux">>, value), Entry(<<"plafond">>, value)>>}

Attributs ==
    {<<>>,
     <<Entry(<<"attributs">>, Obj(<<Entry(<<"nom">>, Str(<<"c">>))>>))>>,
     <<Entry(<<"attributs">>, Obj(<<Entry(<<"valeur">>, Num(3))>>))>>,
     <<Entry(<<"attributs">>,
             Obj(<<Entry(<<"nom">>, Str(<<"c">>)), Entry(<<"valeur">>, Num(3))>>))>>}

Composantes == {Obj(a \o e) : a \in Attributs, e \in EntryLists(Num(2))}

InitDecompose ==
    /\ pc = "decompose"
    /\ thrown = NoError
    /\ k \in MechanismKeys
    /\ \E f \in EntryLists(Num(1)), c \in SeqsUpTo(Composantes, MaxComponents) :
          v = Obj(f \o <<Entry(<<"composantes">>, List(c))>>)
    /\ node = [nodeKind |-> "none"]
    /\ object = Null /\ transpiled = Null /\ retranspiled = Null
    /\ rulesNames = <<>> /\ dependencyGraph = <<>> /\ result = <<>>
    /\ temp = <<>> /\ stack = <<>> /\ loopIdx = 0
    /\ parsedRules = Idle /\ res = Idle /\ inferIdx = 0 /\ lookups = <<>>
    /\ rawRules = <<>> /\ ruleIdx = 0 /\ parseCalls = <<>>

NextDecompose == Decompose

SpecDecompose == InitDecompose /\ [][NextDecompose]_vars

(***************************************************************************)
(* AST nodes.  An array-valued `explanation` is kept as List(...).         *)
(***************************************************************************)
\* the most branches a generated `variations` node holds
MaxBranches == 2

AggregationKinds ==
    {"somme", "produit", "barème", "durée", "grille", "taux progressif",
     "maximum", "minimum"}

GateKinds == {"applicable si", "non applicable si"}

FixedKinds ==
    {"inversion", "operation", "par défaut", "recalcul", "replacementRule",
     "toutes ces conditions", "une de ces conditions", "une possibilité",
     "résoudre référence circulaire", "synchronisation"}

ValeurKinds == {"arrondi", "nom dans la situation", "plafond", "plancher"}

Leaf(kind) == [nodeKind |-> kind]
Constant(value) == [nodeKind |-> "constant", nodeValue |-> value]
Abattement(assiette) ==
    [nodeKind |-> "abattement", explanation |-> [assiette |-> assiette]]
WithValeur(kind, valeur) ==
    [nodeKind |-> kind, explanation |-> [valeur |-> valeur]]
Unite(operand) == [nodeKind |-> "unité", explanation |-> operand]
Variations(consequences) ==
    [nodeKind |-> "variations",
     explanation |->
         List([i \in DOMAIN consequences |->
                  [condition |-> Constant(Bool(TRUE)),
                   consequence |-> consequences[i]]])]
Reference(context, name, notARealDependency) ==
    [nodeKind |-> "reference", name |-> name, contextDottedName |-> context,
     thisReferenceIsNotARealDependencyHack |-> notARealDependency]
Rule(dottedName, valeur) ==
    [nodeKind |-> "rule", dottedName |-> dottedName,
     title |-> dottedName[Len(dottedName)],
     rawNode |-> [acronyme |-> Undefined],
     explanation |-> [valeur |-> valeur]]

\* the literal names references are written with
ReferenceNames == {<<"a">>, <<"b">>}

Leaves(context) ==
    {Leaf(kind) : kind \in AggregationKinds \cup GateKinds \cup FixedKinds}
    \cup {Constant(Null), Constant(Num(5))}
    \cup {Reference(context, name, hack) :
              name \in ReferenceNames, hack \in BOOLEAN}

Operands(context) ==
    {Leaf("somme"), Constant(Null), Reference(context, <<"a">>, FALSE),
     Reference(context, <<"b">>, FALSE), Reference(context, <<"b">>, TRUE)}

\* the expression trees of a rule: every reference in them carries the
\* rule's name as its context
Trees(context) ==
    Leaves(context)
    \cup {Abattement(o) : o \in Operands(context)}
    \cup {WithValeur(kind, o) : kind \in ValeurKinds, o \in Operands(context)}
    \cup {Unite(o) : o \in Operands(context)}
    \cup {Variations(c) :
              c \in SeqsUpTo(Operands(context), MaxBranches) \ {<<>>}}

\* the children of a node, in traversal order
Children(n) ==
    IF n.nodeKind = "rule" THEN <<n.explanation.valeur>>
    ELSE IF n.nodeKind = "abattement" THEN <<n.explanation.assiette>>
    ELSE IF n.nodeKind \in ValeurKinds THEN <<n.explanation.valeur>>
    ELSE IF n.nodeKind = "unité" THEN <<n.explanation>>
    ELSE IF n.nodeKind = "variations"
    THEN LET lines == n.explanation.array
         IN  [i \in 1..(2 * Len(lines)) |->
                 IF i % 2 = 1 THEN lines[(i + 1) \div 2].condition
                 ELSE lines[i \div 2].consequence]
    ELSE <<>>

\* the reference nodes of a tree, in traversal order
RECURSIVE ReferencesOf(_)
RECURSIVE ReferencesOfAll(_)
ReferencesOfAll(nodes) ==
    IF nodes = <<>> THEN <<>>
    ELSE ReferencesOf(nodes[1]) \o ReferencesOfAll(Tail(nodes))

ReferencesOf(n) ==
    IF n.nodeKind = "reference" THEN <<n>> ELSE ReferencesOfAll(Children(n))

(***************************************************************************)
(* disambiguateReference and the traversal that applies it                 *)
(***************************************************************************)
\* the collaborator disambiguateRuleReference: the literal name is looked up
\* in the enclosing rule's namespace, then in each parent namespace out to
\* the root; the first rule found is the target, none is a failure
DisambiguateRuleReference(rules, contextName, partialName) ==
    LET found == {j \in 0..Len(contextName) :
                      SubSeq(contextName, 1, j) \o partialName \in DOMAIN rules}
    IN  IF found = {} THEN [found |-> FALSE, dottedName |-> partialName]
        ELSE [found |-> TRUE,
              dottedName |->
                  SubSeq(contextName, 1,
                         CHOOSE j \in found : \A j2 \in found : j2 <= j)
                  \o partialName]

\* a variant that records an edge for every reference
RecordsEdgeAlways(n) == TRUE

\* if (node.thisReferenceIsNotARealDependencyHack !== true)
RecordsEdge(n) == n.thisReferenceIsNotARealDependencyHack # TRUE

\* dependencies[context] = [...(dependencies[context] ?? []), dottedName]
AddEdge(dependencies, context, dottedName) ==
    [dependencies EXCEPT ![context] = Append(@, dottedName)]

\* the reference node the transformer returns
Disambiguated(rules, n) ==
    LET dottedName ==
            DisambiguateRuleReference(rules, n.contextDottedName, n.name).dottedName
    IN  [nodeKind |-> "reference", name |-> n.name,
         contextDottedName |-> n.contextDottedName,
         thisReferenceIsNotARealDependencyHack |->
             n.thisReferenceIsNotARealDependencyHack,
         dottedName |-> dottedName,
         title |-> rules[dottedName].title,
         acronym |-> rules[dottedName].rawNode.acronyme]

\* the dependencies after the transformer has visited the references `refs`
RECURSIVE VisitReferences(_, _, _)
VisitReferences(rules, dependencies, refs) ==
    IF refs = <<>> THEN dependencies
    ELSE VisitReferences(
             rules,
             IF RecordsEdge(refs[1])
             THEN AddEdge(dependencies, refs[1].contextDottedName,
                          DisambiguateRuleReference(
                              rules, refs[1].contextDottedName,
                              refs[1].name).dottedName)
             ELSE dependencies,
             Tail(refs))

\* makeASTTransformer: the tree rebuilt with every reference node replaced
RECURSIVE TransformTree(_, _)
TransformTree(rules, n) ==
    IF n.nodeKind = "reference" THEN Disambiguated(rules, n)
    ELSE IF n.nodeKind = "rule"
    THEN [n EXCEPT !.explanation.valeur = TransformTree(rules, @)]
    ELSE IF n.nodeKind = "abattement"
    THEN [n EXCEPT !.explanation.assiette = TransformTree(rules, @)]
    ELSE IF n.nodeKind \in ValeurKinds
    THEN [n EXCEPT !.explanation.valeur = TransformTree(rules, @)]
    ELSE IF n.nodeKind = "unité"
    THEN [n EXCEPT !.explanation = TransformTree(rules, @)]
    ELSE IF n.nodeKind = "variations"
    THEN [n EXCEPT !.explanation.array =
             [i \in DOMAIN @ |->
                 [condition |-> TransformTree(rules, @[i].condition),
                  consequence |-> TransformTree(rules, @[i].consequence)]]]
    ELSE n

\* traverseParsedRules, one rule: the transformer walks the rule's tree; a
\* reference that cannot be resolved throws and aborts the compilation
ResolveRule ==
    /\ pc = "resolve"
    /\ ruleIdx <= Len(rulesNames)
    /\ LET ruleName == rulesNames[ruleIdx]
           refs == ReferencesOf(parsedRules[ruleName])
           unresolved ==
               {i \in DOMAIN refs :
                    ~DisambiguateRuleReference(
                         parsedRules, refs[i].contextDottedName,
                         refs[i].name).found}
       IN  IF unresolved # {}
           THEN /\ pc' = "error"
                /\ thrown' =
                       [error |-> "Error",
                        message |->
                            refs[CHOOSE i \in unresolved :
                                     \A j \in unresolved : i <= j].name]
                /\ dependencyGraph' =
                       VisitReferences(
                           parsedRules, dependencyGraph,
                           SubSeq(refs, 1,
                                  (CHOOSE i \in unresolved :
                                       \A j \in unresolved : i <= j) - 1))
                /\ UNCHANGED <<parsedRules, ruleIdx>>
           ELSE /\ dependencyGraph' =
                       VisitReferences(parsedRules, dependencyGraph, refs)
                /\ parsedRules' =
                       [parsedRules EXCEPT
                           ![ruleName] = TransformTree(parsedRules, @)]
                /\ ruleIdx' = ruleIdx + 1
                /\ UNCHANGED <<pc, thrown>>
    /\ UNCHANGED <<rulesNames, result, temp, stack, loopIdx>>
    /\ UNCHANGED <<res, inferIdx, lookups, rawRules, parseCalls>>
    /\ UNCHANGED <<transpileVars, decomposeVars>>

\* the traversal is over: topologicalSort(Object.keys(parsedRules),
\* dependencies) is entered
ResolveDone ==
    /\ pc = "resolve"
    /\ ruleIdx > Len(rulesNames)
    /\ pc' = "sort"
    /\ result' = <<>>
    /\ temp' = [n \in Range(rulesNames) |-> FALSE]
    /\ stack' = <<>>
    /\ loopIdx' = 1
    /\ UNCHANGED <<thrown, rulesNames, dependencyGraph>>
    /\ UNCHANGED <<compileVars, parseVars, transpileVars, decomposeVars>>

(***************************************************************************)
(* inlineReplacements and inferRulesUnit                                   *)
(***************************************************************************)
\* the fact table: NoEntry for a key that was never written
NoEntry == [absent |-> TRUE]
TypeError == [error |-> "TypeError"]

\* res[name]
Lookup(table, name) == IF table[name] = NoEntry THEN Undefined ELSE table[name]

IsUnit(u) == "isNullable" \in DOMAIN u

Unit(isNullable) == [unit |-> [isNullable |-> isNullable], reads |-> <<>>]

\* inferNodeUnit, for every kind but 'rule': the value returned (a unit,
\* undefined, or the TypeError raised by reading .isNullable of undefined)
\* and the names read from the fact table on the way
RECURSIVE inferNodeUnit(_, _)
RECURSIVE SomeConsequence(_, _)

\* node.explanation.some((line) => inferNodeUnit(line.consequence).isNullable)
SomeConsequence(lines, table) ==
    IF lines = <<>> THEN Unit(FALSE)
    ELSE LET first == inferNodeUnit(lines[1].consequence, table)
         IN  IF ~IsUnit(first.unit)
             THEN [unit |-> TypeError, reads |-> first.reads]
             ELSE IF first.unit.isNullable
             THEN [unit |-> [isNullable |-> TRUE], reads |-> first.reads]
             ELSE LET rest == SomeConsequence(Tail(lines), table)
                  IN  [unit |-> rest.unit, reads |-> first.reads \o rest.reads]

inferNodeUnit(n, table) ==
    IF n.nodeKind \in AggregationKinds THEN Unit(FALSE)
    ELSE IF n.nodeKind \in GateKinds THEN Unit(TRUE)
    ELSE IF n.nodeKind = "constant" THEN Unit(n.nodeValue = Null)
    ELSE IF n.nodeKind \in FixedKinds THEN Unit(FALSE)
    ELSE IF n.nodeKind = "abattement"
    THEN inferNodeUnit(n.explanation.assiette, table)
    ELSE IF n.nodeKind \in ValeurKinds
    THEN inferNodeUnit(n.explanation.valeur, table)
    ELSE IF n.nodeKind = "unité" THEN inferNodeUnit(n.explanation, table)
    ELSE IF n.nodeKind = "variations"
    THEN SomeConsequence(n.explanation.array, table)
    ELSE IF n.nodeKind = "reference"
    THEN [unit |-> Lookup(table, n.dottedName), reads |-> <<n.dottedName>>]
    ELSE [unit |-> Undefined, reads |-> <<>>]

\* topologicalSort was called by parsePublicodes, not on its own
Compiling == ruleIdx > 0

\* steps 5 and 6 begin.  No generated rule declares a replacement:
\* getReplacements returns nothing to inline and the rewriter leaves every
\* tree as it is.  inferRulesUnit starts with an empty table.
InlineReplacements ==
    /\ pc = "sorted"
    /\ Compiling
    /\ pc' = "infer"
    /\ res' = [n \in Range(rulesNames) |-> NoEntry]
    /\ inferIdx' = 1
    /\ UNCHANGED <<thrown, parsedRules, lookups>>
    /\ UNCHANGED <<sortVars, parseVars, transpileVars, decomposeVars>>

\* one turn of topologicalOrder.forEach: inferNodeUnit(parsedRules[ruleName]),
\* case 'rule': res[ruleName] = inferNodeUnit(node.explanation.valeur)
InferRule ==
    /\ pc = "infer"
    /\ inferIdx <= Len(result)
    /\ LET ruleName == parsedRules[result[inferIdx]].dottedName
           inferred ==
               inferNodeUnit(parsedRules[result[inferIdx]].explanation.valeur, res)
       IN  /\ lookups' =
                  lookups \o
                  [i \in DOMAIN inferred.reads |->
                      [rule |-> ruleName, target |-> inferred.reads[i],
                       memoized |-> res[inferred.reads[i]] # NoEntry]]
           /\ IF inferred.unit = TypeError
              THEN /\ pc' = "error"
                   /\ thrown' = TypeError
                   /\ UNCHANGED <<res, inferIdx>>
              ELSE /\ res' = [res EXCEPT ![ruleName] = inferred.unit]
                   /\ inferIdx' = inferIdx + 1
                   /\ UNCHANGED <<pc, thrown>>
    /\ UNCHANGED parsedRules
    /\ UNCHANGED <<sortVars, parseVars, transpileVars, decomposeVars>>

\* return res; return parsedRules
InferDone ==
    /\ pc = "infer"
    /\ inferIdx > Len(result)
    /\ pc' = "compiled"
    /\ UNCHANGED <<thrown, sortVars, compileVars>>
    /\ UNCHANGED <<parseVars, transpileVars, decomposeVars>>

\* the rule lists parse has registered: two rules, in either order
RuleLists ==
    {<<<<"a">>, <<"a", "b">>>>, <<<<"a", "b">>, <<"a">>>>,
     <<<<"b">>, <<"a", "b">>>>, <<<<"a", "b">>, <<"b">>>>}

InitCompile ==
    /\ pc = "resolve"
    /\ thrown = NoError
    /\ rulesNames \in RuleLists
    /\ parsedRules \in
           {[n \in Range(rulesNames) |->
                Rule(n, IF n = rulesNames[1] THEN first ELSE second)] :
                first \in Trees(rulesNames[1]), second \in Trees(rulesNames[2])}
    /\ dependencyGraph = [n \in Range(rulesNames) |-> <<>>]
    /\ result = <<>>
    /\ temp = [n \in Range(rulesNames) |-> FALSE]
    /\ stack = <<>>
    /\ loopIdx = 1
    /\ ruleIdx = 1
    /\ res = [n \in Range(rulesNames) |-> NoEntry]
    /\ inferIdx = 1
    /\ lookups = <<>>
    /\ rawRules = <<>> /\ parseCalls = <<>>
    /\ object = Null /\ transpiled = Null /\ retranspiled = Null
    /\ k = Idle /\ v = Idle /\ node = Idle

NextResolve == ResolveRule \/ ResolveDone

SpecResolve == InitCompile /\ [][NextResolve]_vars

NextCompile ==
    \/ ResolveRule
    \/ ResolveDone
    \/ SortLoopCall
    \/ SortLoopSkip
    \/ HelperSkipInProgress
    \/ HelperCall
    \/ HelperSkipDone
    \/ HelperReturn
    \/ SortReturn
    \/ InlineReplacements
    \/ InferRule
    \/ InferDone

SpecCompile == InitCompile /\ [][NextCompile]_vars

(***************************************************************************)
(* Properties of topologicalSort                                           *)
(***************************************************************************)
RECURSIVE Closure(_, _)
Closure(graph, S) ==
    LET T == S \cup UNION {Range(graph[n]) : n \in S}
    IN  IF T = S THEN S ELSE Closure(graph, T)

\* the names reachable from `n` along one edge or more
Descendants(graph, n) == Closure(graph, Range(graph[n]))

Acyclic(graph) == \A n \in DOMAIN graph : n \notin Descendants(graph, n)

IndexOf(s, x) == CHOOSE i \in DOMAIN s : s[i] = x

HasDuplicateEdge(graph) ==
    \E r \in DOMAIN graph : \E i, j \in DOMAIN graph[r] :
        i # j /\ graph[r][i] = graph[r][j]

HasSelfLoop(graph) == \E r \in DOMAIN graph : r \in Range(graph[r])

\* C1: whatever the graph (acyclic, cyclic, with self-loops or duplicate
\* edges), the sequence topologicalSort returns is a permutation of the rule
\* names: every rule name occurs in it exactly once and no other name occurs.
C1_ResultIsPermutation ==
    pc = "sorted" =>
        /\ Len(result) = Len(rulesNames)
        /\ \A n \in Range(rulesNames) :
              Cardinality({i \in DOMAIN result : result[i] = n}) = 1
        /\ Range(result) \subseteq Range(rulesNames)

\* the sort has returned on a three-rule graph with a cycle that is no
\* self-loop and on which a dependency was found done already
C1_Witness ==
    /\ pc = "sorted"
    /\ Len(rulesNames) = 3
    /\ ~Acyclic(dependencyGraph)
    /\ ~HasSelfLoop(dependencyGraph)
    /\ Len(result) = 3

\* C2: on an acyclic graph every dependency precedes each rule that depends
\* on it: for every edge r -> d, d occurs at a smaller index than r in the
\* result, whatever the order in which the rule names were given.
C2_DependenciesFirst ==
    (pc = "sorted" /\ Acyclic(dependencyGraph)) =>
        \A r \in DOMAIN dependencyGraph : \A d \in Range(dependencyGraph[r]) :
            /\ Includes(result, r) /\ Includes(result, d)
            /\ IndexOf(result, d) < IndexOf(result, r)

\* the chain x -> y -> z has been sorted with the names given dependents
\* first: z comes out first, x last
C2_Witness ==
    /\ pc = "sorted"
    /\ Acyclic(dependencyGraph)
    /\ Len(rulesNames) = 3
    /\ rulesNames[2] \in Range(dependencyGraph[rulesNames[1]])
    /\ rulesNames[3] \in Range(dependencyGraph[rulesNames[2]])
    /\ result = <<rulesNames[3], rulesNames[2], rulesNames[1]>>

\* a step that enters the helper: the call stack grows by one frame
EntersHelper == Len(stack') = Len(stack) + 1

C5_Idempotent == pc = "transpiled twice" => retranspiled = transpiled

(***************************************************************************)
(* Properties of the per-rule parsing loop                                 *)
(***************************************************************************)
\* the text `part` occurs in the text `whole`
Contains(whole, part) ==
    \E j \in 1..(Len(whole) - Len(part) + 1) :
        SubSeq(whole, j, j + Len(part) - 1) = part

\* the loop has handled entry i: it went past it, or it threw on it
Handled(i) == i < ruleIdx \/ (i = ruleIdx /\ pc = "error")

\* a body that is neither an object nor a string or number: a list, a
\* boolean, null
NeitherObjectNorScalar(rule) ==
    TypeofStrict(rule) \notin {"object", "string", "number"}

\* C4: for every top-level rule whose body is neither an object nor a
\* string/number (a raw list, a boolean, null), parsePublicodes fails with a
\* SyntaxError whose message contains the rule's name, and parse is not
\* called for that rule.
C4_BadBodyFails ==
    pc \in {"parse", "parsed", "error"} =>
        \A i \in DOMAIN rawRules :
            (Handled(i) /\ NeitherObjectNorScalar(rawRules[i].value)) =>
                /\ pc = "error"
                /\ thrown.error = "SyntaxError"
                /\ Contains(thrown.message, rawRules[i].key)
                /\ \A c \in DOMAIN parseCalls :
                      parseCalls[c].entries[1].value # Str(rawRules[i].key)

(***************************************************************************)
(* Properties of decompose                                                 *)
(***************************************************************************)
Components == Get(v, <<"composantes">>).array

FactoredKeys == Obj(Rest(v.entries, <<"composantes">>))

OtherKeys(composante) == Obj(Rest(composante.entries, <<"attributs">>))

AttributsOf(composante) ==
    IF HasKey(composante, <<"attributs">>)
    THEN Get(composante, <<"attributs">>) ELSE Obj(<<>>)

Summands == Get(parseCalls[1], <<"somme">>).array

\* parse received one sum with one summand per component, in order; summand
\* i holds under `valeur` an object with the single key k, whose content is
\* the factored keys merged with component i's other keys, the component's
\* value kept for a key of both
SumOfMergedComponents ==
    /\ Len(parseCalls) = 1
    /\ KeysOf(parseCalls[1]) = {<<"somme">>}
    /\ Len(Summands) = Len(Components)
    /\ \A i \in DOMAIN Components :
          LET content == Get(Get(Summands[i], <<"valeur">>), k)
              other == OtherKeys(Components[i])
          IN  /\ KeysOf(Get(Summands[i], <<"valeur">>)) = {k}
              /\ KeysOf(content) = KeysOf(FactoredKeys) \cup KeysOf(other)
              /\ \A key \in KeysOf(content) :
                    Get(content, key) =
                        IF HasKey(other, key) THEN Get(other, key)
                        ELSE Get(FactoredKeys, key)

\* C6 as stated: decompose hands parse a sum with one summand per component,
\* in order; each summand's value has the single key k, holding the factored
\* keys merged with the component's other keys (the component wins); and the
\* component's attributes are placed on the summand itself, outside k.
C6_EveryAttributeOnSummand ==
    pc = "decomposed" =>
        /\ SumOfMergedComponents
        /\ \A i \in DOMAIN Components :
              /\ KeysOf(Summands[i]) =
                     KeysOf(AttributsOf(Components[i])) \cup {<<"valeur">>}
              /\ \A a \in KeysOf(AttributsOf(Components[i])) :
                    Get(Summands[i], a) = Get(AttributsOf(Components[i]), a)

\* C6 as amended: the same, except that an attribute named `valeur` is not
\* placed: the summand's own `valeur` takes its key.
C6_AttributesExceptValeur ==
    pc = "decomposed" =>
        /\ SumOfMergedComponents
        /\ \A i \in DOMAIN Components :
              /\ KeysOf(Summands[i]) =
                     KeysOf(AttributsOf(Components[i])) \cup {<<"valeur">>}
              /\ \A a \in KeysOf(AttributsOf(Components[i])) \ {<<"valeur">>} :
                    Get(Summands[i], a) = Get(AttributsOf(Components[i]), a)

\* two components were expanded, one of which overrides a factored key and
\* carries a `nom` attribute
C6_Witness ==
    /\ pc = "decomposed"
    /\ Len(Components) = 2
    /\ \E i \in DOMAIN Components :
          /\ HasKey(FactoredKeys, <<"taux">>)
          /\ HasKey(OtherKeys(Components[i]), <<"taux">>)
          /\ HasKey(AttributsOf(Components[i]), <<"nom">>)
          /\ Get(Get(Get(Summands[i], <<"valeur">>), k), <<"taux">>) = Num(2)

(***************************************************************************)
(* Properties of the resolution pass and of inferRulesUnit                 *)
(***************************************************************************)
\* every reference node of the rule trees, rules in key order, each tree in
\* traversal order
AllReferences ==
    ReferencesOfAll([i \in DOMAIN rulesNames |-> parsedRules[rulesNames[i]]])

\* the resolved names of the unflagged references enclosed by rule r
RealDependencies(r) ==
    LET refs == SelectSeq(AllReferences,
                          LAMBDA n : /\ n.contextDottedName = r
                                     /\ ~n.thisReferenceIsNotARealDependencyHack)
    IN  [i \in DOMAIN refs |-> refs[i].dottedName]

ResolutionDone == pc = "sort" /\ Compiling

\* C10: once the resolution pass is over, the dependency graph holds for
\* every rule r exactly the resolved names of the unflagged reference nodes
\* enclosed by r, in traversal order and with duplicates kept; flagged
\* references add no edge but are resolved and rewritten like the others, and
\* every edge target is a key of the rule map.
C10_GraphIsResolvedReferences ==
    ResolutionDone =>
        /\ \A i \in DOMAIN AllReferences :
               LET n == AllReferences[i]
               IN  /\ "dottedName" \in DOMAIN n
                   /\ n.dottedName \in DOMAIN parsedRules
                   /\ n.dottedName =
                          DisambiguateRuleReference(
                              parsedRules, n.contextDottedName, n.name).dottedName
                   /\ n.title = parsedRules[n.dottedName].title
        /\ \A r \in DOMAIN parsedRules :
               /\ dependencyGraph[r] = RealDependencies(r)
               /\ Range(dependencyGraph[r]) \subseteq DOMAIN parsedRules

\* C10 witness: the pass is over for a rule set where a name resolves
\* differently from two rules, one rule refers twice to the same target and
\* keeps both edges, and a flagged reference has been rewritten without an edge.
C10_Witness ==
    /\ ResolutionDone
    /\ HasDuplicateEdge(dependencyGraph)
    /\ \E i \in DOMAIN AllReferences :
           /\ AllReferences[i].thisReferenceIsNotARealDependencyHack
           /\ "dottedName" \in DOMAIN AllReferences[i]
           /\ dependencyGraph[AllReferences[i].contextDottedName] = <<>>
    /\ \E i, j \in DOMAIN AllReferences :
           /\ AllReferences[i].name = AllReferences[j].name
           /\ AllReferences[i].dottedName # AllReferences[j].dottedName

\* the nullability the per-kind table gives a tree, references read from the
\* finished fact table
RECURSIVE Nullable(_)
Nullable(n) ==
    IF n.nodeKind \in AggregationKinds \cup FixedKinds THEN FALSE
    ELSE IF n.nodeKind \in GateKinds THEN TRUE
    ELSE IF n.nodeKind = "constant" THEN n.nodeValue = Null
    ELSE IF n.nodeKind = "variations"
    THEN \E i \in DOMAIN n.explanation.array :
             Nullable(n.explanation.array[i].consequence)
    ELSE IF n.nodeKind = "reference" THEN res[n.dottedName].isNullable
    ELSE Nullable(Children(n)[1])

InferenceOver ==
    /\ Compiling
    /\ \/ pc = "compiled"
       \/ pc = "error" /\ thrown = TypeError

\* C7: for an acyclic rule set, inferRulesUnit returns a table with one
\* fact per rule name, and each rule's isNullable is the value the per-kind
\* table gives for the rule's root expression.
C7_TableFollowsKinds ==
    (InferenceOver /\ Acyclic(dependencyGraph)) =>
        /\ pc = "compiled"
        /\ \A r \in Range(result) : IsUnit(res[r])
        /\ \A r \in Range(result) :
               res[r].isNullable = Nullable(parsedRules[r].explanation.valeur)

\* C8: the nullability pass never raises an error: a reference whose target
\* has no fact yet, or was left with an unknown fact, yields an unknown fact
\* whatever node encloses it.
C8_CyclesNeverFatal ==
    (Compiling /\ pc = "error") => thrown # TypeError

\* C9: in the acyclic case every read of the fact table by a reference node
\* finds the entry of its target already written.
C9_TargetsAlreadyMemoized ==
    (Compiling /\ Acyclic(dependencyGraph) /\ pc \in {"infer", "compiled", "error"}) =>
        \A i \in DOMAIN lookups : lookups[i].memoized

(***************************************************************************)
(* Skipped edges of topologicalSort                                        *)
(***************************************************************************)
\* the names of the helper's pending calls, outermost first
DfsPath == [j \in DOMAIN stack |-> stack[j].ruleName]

\* the helper is at an edge whose target is marked in progress: the edge
\* Top.ruleName -> Top.nodeDependencies[Top.i] is about to be skipped
AtSkippedEdge ==
    /\ pc = "sort" /\ stack # <<>>
    /\ Top.i <= Len(Top.nodeDependencies)
    /\ InProgress(temp, Top.nodeDependencies[Top.i])

\* C11: topologicalSort skips only edges that lie on a cycle: the target d
\* of a skipped edge r -> d is on the current DFS path and reaches r; and at
\* the return, for every edge r -> d whose target cannot reach r, d stands
\* before r in the result, cycles elsewhere in the graph notwithstanding.
C11_OnlyCycleEdgesSkipped ==
    /\ AtSkippedEdge =>
           /\ Includes(DfsPath, Top.nodeDependencies[Top.i])
           /\ Top.ruleName \in
                  Descendants(dependencyGraph, Top.nodeDependencies[Top.i])
    /\ pc = "sorted" =>
           \A r \in Range(rulesNames) :
               \A i \in DOMAIN dependencyGraph[r] :
                   LET d == dependencyGraph[r][i]
                   IN  r \notin Descendants(dependencyGraph, d) =>
                           /\ Includes(result, d)
                           /\ Includes(result, r)
                           /\ IndexOf(result, d) < IndexOf(result, r)

\* C11 witness: the sort has returned on a graph where a rule r lies on a
\* cycle, one edge of that cycle was skipped (its target stands after its
\* source in the result), and r also has an edge to a rule that cannot reach
\* it, which stands before r.
C11_Witness ==
    /\ pc = "sorted"
    /\ \E r \in Range(rulesNames) :
           /\ r \in Descendants(dependencyGraph, r)
           /\ \E s \in Descendants(dependencyGraph, r) :
                  \E i \in DOMAIN dependencyGraph[s] :
                      /\ r \in Descendants(dependencyGraph, dependencyGraph[s][i])
                      /\ IndexOf(result, dependencyGraph[s][i]) > IndexOf(result, s)
           /\ \E i \in DOMAIN dependencyGraph[r] :
                  /\ r \notin Descendants(dependencyGraph, dependencyGraph[r][i])
                  /\ IndexOf(result, dependencyGraph[r][i]) < IndexOf(result, r)

====
